---- MODULE Spec2Model ----
(***************************************************************************)
(* The vault backend: the in-memory entity store (MemStorage), the         *)
(* playlist-track ordering, and the request handlers of registerRoutes.    *)
(*                                                                         *)
(* A Map<number, E> is a function whose DOMAIN is the set of keys.  Keys   *)
(* are only ever inserted from the increasing id counters and Map.set on   *)
(* an existing key keeps its place, so the insertion order that            *)
(* Array.from(map.values()) iterates in is the ascending order of keys.    *)
(*                                                                         *)
(* An optional value (E | undefined, a parseInt result that may be NaN)    *)
(* is a set with at most one element.                                      *)
(*                                                                         *)
(* Every MemStorage method is async but contains no await: one call runs   *)
(* to completion without interleaving.  A request handler yields at each   *)
(* `await storage.x(...)`: the call itself runs before the yield, the      *)
(* code after it runs in a later step.                                     *)
(***************************************************************************)
EXTENDS Integers, Sequences, FiniteSets, TLC

VARIABLES users, categories, playlists, tracks, playlistTracks,
          userId, categoryId, playlistId, trackId, playlistTrackId,
          files, recorder, page, reqs, ret

\* the fields of MemStorage, the paths of the files in the upload
\* directory, and the state of the two components of the browser (the
\* Recorder and the Upload page), which no call of the server touches
store == <<users, categories, playlists, tracks, playlistTracks,
           userId, categoryId, playlistId, trackId, playlistTrackId, files,
           recorder, page>>
vars == <<store, reqs, ret>>

-----------------------------------------------------------------------------
(* Bounds of the model *)

\* users, categories, and playlists, created on top of the default data
MaxCreates == 1
\* tracks ever created (caps trackId)
MaxTracks == 2
\* links ever inserted (caps playlistTrackId)
MaxLinks == 2
\* request handlers that can be in flight together
MaxRequests == 2
\* intervals the Recorder ever asks the window for (caps the interval id)
MaxTimers == 3
\* seconds the Recorder counts (caps recordingTime)
MaxTime == 2
-----------------------------------------------------------------------------
(* Helpers for maps, optionals and object spread *)

MapSet(m, k, v) == [x \in DOMAIN m \cup {k} |-> IF x = k THEN v ELSE m[x]]

MapDelete(m, k) == [x \in DOMAIN m \ {k} |-> m[x]]

MapGet(m, k) == IF k \in DOMAIN m THEN {m[k]} ELSE {}

\* { ...a, ...b }
Spread(a, b) == [k \in DOMAIN a \cup DOMAIN b |-> IF k \in DOMAIN b THEN b[k] ELSE a[k]]

Max(S) == CHOOSE x \in S : \A y \in S : y <= x

\* the n-th smallest element of a set of numbers
Nth(S, n) == CHOOSE x \in S : Cardinality({y \in S : y < x}) = n - 1

\* Array.from(map.values())
Values(m) == [i \in 1..Cardinality(DOMAIN m) |-> m[Nth(DOMAIN m, i)]]

\* array.filter(pred): Keep(s, T) keeps the elements of s that are in T
Keep(s, T) ==
  LET kept == {i \in DOMAIN s : s[i] \in T}
  IN [j \in 1..Cardinality(kept) |-> s[Nth(kept, j)]]

Range(s) == {s[i] : i \in DOMAIN s}

\* array.find(pred): the first element of s that is in T, if any
Find(s, T) == LET hit == Keep(s, T) IN IF hit = <<>> THEN {} ELSE {Head(hit)}

-----------------------------------------------------------------------------
(* Default data *)

SessionUser == 1

defaultUser ==
  [username |-> "user", password |-> "password", email |-> "user@example.com",
   phone |-> "+1 (555) 123-4567", fullName |-> "Demo User", avatarColor |-> "#1DB954"]

categoryData ==
  << [name |-> "Interviews", icon |-> "ri-mic-fill", color |-> "#1DB954"],
     [name |-> "Melodies", icon |-> "ri-file-music-fill", color |-> "#2D46B9"],
     [name |-> "Samples", icon |-> "ri-sound-module-fill", color |-> "#F230AA"],
     [name |-> "Podcasts", icon |-> "ri-vidicon-fill", color |-> "#FFC107"] >>

playlistData ==
  << [name |-> "Morning Reflections", icon |-> "ri-mic-fill", color |-> "#2D46B9"],
     [name |-> "Work Notes", icon |-> "ri-album-fill", color |-> "#F230AA"],
     [name |-> "Song Ideas", icon |-> "ri-music-fill", color |-> "#1DB954"] >>

\* ret is what the last step gave back.  A direct store call: the method,
\* whether it returned a value (true, an entity) rather than false,
\* undefined or a throw, and the rows returned; status is 0.  The last step
\* of a request handler: the route, the HTTP status and the JSON rows of the
\* response.  A handler step that ends at an await gives nothing back.
Ret(op, ok, rows) == [op |-> op, ok |-> ok, status |-> 0, rows |-> rows]

Nothing == Ret("await", FALSE, <<>>)

Response(op, status, rows) == [op |-> op, ok |-> status < 400, status |-> status, rows |-> rows]

Idle == [pc |-> "idle"]

Init ==
  /\ users = [i \in {1} |-> Spread(defaultUser, [id |-> 1])]
  /\ categories = [i \in DOMAIN categoryData |->
                     Spread(Spread(categoryData[i], [userId |-> 1]), [id |-> i])]
  /\ playlists = [i \in DOMAIN playlistData |->
                     Spread(Spread(playlistData[i], [userId |-> 1]), [id |-> i])]
  /\ tracks = << >>
  /\ playlistTracks = << >>
  /\ userId = 2
  /\ categoryId = Len(categoryData) + 1
  /\ playlistId = Len(playlistData) + 1
  /\ trackId = 1
  /\ playlistTrackId = 1
  /\ files = {}
  /\ recorder = [isRecording |-> FALSE, isPaused |-> FALSE, recordingTime |-> 0,
                 recordingBlob |-> FALSE, showSaveOptions |-> FALSE,
                 mediaRecorderRef |-> FALSE, timerIntervalRef |-> {},
                 intervals |-> {}, nextInterval |-> 1, starting |-> 0,
                 stopping |-> FALSE]
  /\ page = [selectedPlaylist |-> {}, showUploadOptions |-> FALSE,
             showRecorder |-> FALSE,
             uploads |-> [i \in 1..MaxRequests |-> [pc |-> "idle"]]]
  /\ reqs = [r \in 1..MaxRequests |-> Idle]
  /\ ret = Nothing

-----------------------------------------------------------------------------
(* MemStorage.  A method is an operator from the current state to its      *)
(* effect: the fields of the store after the call, whether it returned a   *)
(* value (ok), whether it threw, and the rows it returned.                 *)

Same ==
  [users |-> users, categories |-> categories, playlists |-> playlists,
   tracks |-> tracks, playlistTracks |-> playlistTracks,
   userId |-> userId, categoryId |-> categoryId, playlistId |-> playlistId,
   trackId |-> trackId, playlistTrackId |-> playlistTrackId, files |-> files,
   recorder |-> recorder, page |-> page,
   ok |-> TRUE, threw |-> FALSE, rows |-> <<>>]

\* The store after a call with effect e
Apply(e) ==
  /\ users' = e.users
  /\ categories' = e.categories
  /\ playlists' = e.playlists
  /\ tracks' = e.tracks
  /\ playlistTracks' = e.playlistTracks
  /\ userId' = e.userId
  /\ categoryId' = e.categoryId
  /\ playlistId' = e.playlistId
  /\ trackId' = e.trackId
  /\ playlistTrackId' = e.playlistTrackId
  /\ files' = e.files
  /\ recorder' = e.recorder
  /\ page' = e.page

\* Users

getUser(id) == MapGet(users, id)

getUserByUsername(username) ==
  Find(Values(users), {u \in Range(Values(users)) : u.username = username})

createUser(insertUser) ==
  LET id == userId
      user == Spread(insertUser, [id |-> id])
  IN Spread(Same, [userId |-> userId + 1,
                   users |-> MapSet(users, id, user),
                   rows |-> <<user>>])

updateUser(id, updates) ==
  IF id \notin DOMAIN users THEN Spread(Same, [ok |-> FALSE])
  ELSE LET updatedUser == Spread(users[id], updates)
       IN Spread(Same, [users |-> MapSet(users, id, updatedUser),
                        rows |-> <<updatedUser>>])

\* Categories

getCategories(u) ==
  Keep(Values(categories), {c \in Range(Values(categories)) : c.userId = u})

getCategoryById(id) == MapGet(categories, id)

\* a createCategory that numbers by the size of the map
createCategoryBySize(insertCategory) ==
  LET id == Cardinality(DOMAIN categories) + 1
      category == Spread(insertCategory, [id |-> id])
  IN Spread(Same, [categoryId |-> categoryId + 1,
                   categories |-> MapSet(categories, id, category),
                   rows |-> <<category>>])

createCategory(insertCategory) ==
  LET id == categoryId
      category == Spread(insertCategory, [id |-> id])
  IN Spread(Same, [categoryId |-> categoryId + 1,
                   categories |-> MapSet(categories, id, category),
                   rows |-> <<category>>])

\* an update that stores the given fields in place of the old record
updateCategoryReplace(id, updates) ==
  IF id \notin DOMAIN categories THEN Spread(Same, [ok |-> FALSE])
  ELSE LET updatedCategory == Spread(updates, [id |-> id])
       IN Spread(Same, [categories |-> MapSet(categories, id, updatedCategory),
                        rows |-> <<updatedCategory>>])

updateCategory(id, updates) ==
  IF id \notin DOMAIN categories THEN Spread(Same, [ok |-> FALSE])
  ELSE LET updatedCategory == Spread(categories[id], updates)
       IN Spread(Same, [categories |-> MapSet(categories, id, updatedCategory),
                        rows |-> <<updatedCategory>>])

\* a delete that reports success whatever it found
deleteCategoryTrue(id) ==
  Spread(Same, [categories |-> MapDelete(categories, id)])

\* a delete that also removes the tracks of the category
deleteCategoryCascade(id) ==
  Spread(Same, [categories |-> MapDelete(categories, id),
                tracks |-> [k \in {x \in DOMAIN tracks : tracks[x].categoryId # id}
                              |-> tracks[k]],
                ok |-> id \in DOMAIN categories])

deleteCategory(id) ==
  Spread(Same, [categories |-> MapDelete(categories, id),
                ok |-> id \in DOMAIN categories])

\* Playlists

getPlaylists(u) ==
  Keep(Values(playlists), {p \in Range(Values(playlists)) : p.userId = u})

getPlaylistById(id) == MapGet(playlists, id)

createPlaylist(insertPlaylist) ==
  LET id == playlistId
      playlist == Spread(insertPlaylist, [id |-> id])
  IN Spread(Same, [playlistId |-> playlistId + 1,
                   playlists |-> MapSet(playlists, id, playlist),
                   rows |-> <<playlist>>])

updatePlaylist(id, updates) ==
  IF id \notin DOMAIN playlists THEN Spread(Same, [ok |-> FALSE])
  ELSE LET updatedPlaylist == Spread(playlists[id], updates)
       IN Spread(Same, [playlists |-> MapSet(playlists, id, updatedPlaylist),
                        rows |-> <<updatedPlaylist>>])

\* a deletePlaylist that forgets the links
deletePlaylistNoCascade(id) ==
  Spread(Same, [playlists |-> MapDelete(playlists, id),
                ok |-> id \in DOMAIN playlists])

deletePlaylist(id) ==
  LET doomed == {k \in DOMAIN playlistTracks : playlistTracks[k].playlistId = id}
  IN Spread(Same, [playlistTracks |-> [k \in DOMAIN playlistTracks \ doomed |-> playlistTracks[k]],
                   playlists |-> MapDelete(playlists, id),
                   ok |-> id \in DOMAIN playlists])

\* Tracks

\* a getTracks that does not filter by owner
getTracksOfAll(u) == Values(tracks)

getTracks(u) ==
  Keep(Values(tracks), {t \in Range(Values(tracks)) : t.userId = u})

getTrackById(id) == MapGet(tracks, id)

getTracksByCategory(c) ==
  Keep(Values(tracks), {t \in Range(Values(tracks)) : t.categoryId = c})

\* createdAt = new Date(): the clock is not modelled, the stamp is a token
createTrack(insertTrack) ==
  LET id == trackId
      track == Spread(insertTrack, [id |-> id, createdAt |-> "now"])
  IN Spread(Same, [trackId |-> trackId + 1,
                   tracks |-> MapSet(tracks, id, track),
                   rows |-> <<track>>])

updateTrack(id, updates) ==
  IF id \notin DOMAIN tracks THEN Spread(Same, [ok |-> FALSE])
  ELSE LET updatedTrack == Spread(tracks[id], updates)
       IN Spread(Same, [tracks |-> MapSet(tracks, id, updatedTrack),
                        rows |-> <<updatedTrack>>])

\* a deleteTrack that forgets the links
deleteTrackNoCascade(id) ==
  Spread(Same, [tracks |-> MapDelete(tracks, id),
                ok |-> id \in DOMAIN tracks])

deleteTrack(id) ==
  LET doomed == {k \in DOMAIN playlistTracks : playlistTracks[k].trackId = id}
  IN Spread(Same, [playlistTracks |-> [k \in DOMAIN playlistTracks \ doomed |-> playlistTracks[k]],
                   tracks |-> MapDelete(tracks, id),
                   ok |-> id \in DOMAIN tracks])

\* PlaylistTracks

\* result.sort((a, b) => a.position - b.position): Array.prototype.sort is
\* stable, so rows with equal positions keep their order
SortByPosition(s) ==
  LET Before(i, j) == \/ s[i].position < s[j].position
                      \/ s[i].position = s[j].position /\ i < j
      Rank(j) == Cardinality({i \in DOMAIN s : Before(i, j)}) + 1
  IN [n \in DOMAIN s |-> s[CHOOSE j \in DOMAIN s : Rank(j) = n]]

\* a list in the order of insertion
getPlaylistTracksUnsorted(pid) ==
  LET all == Values(playlistTracks)
      playlistTracksArray == Keep(all, {pt \in Range(all) : pt.playlistId = pid})
  IN IF \E i \in DOMAIN playlistTracksArray :
          playlistTracksArray[i].trackId \notin DOMAIN tracks
     THEN Spread(Same, [ok |-> FALSE, threw |-> TRUE])
     ELSE Spread(Same, [rows |->
            [i \in DOMAIN playlistTracksArray |->
               [track |-> tracks[playlistTracksArray[i].trackId],
                position |-> playlistTracksArray[i].position]]])

getPlaylistTracks(pid) ==
  LET all == Values(playlistTracks)
      playlistTracksArray == Keep(all, {pt \in Range(all) : pt.playlistId = pid})
  IN IF \E i \in DOMAIN playlistTracksArray :
          playlistTracksArray[i].trackId \notin DOMAIN tracks
     THEN Spread(Same, [ok |-> FALSE, threw |-> TRUE])
     ELSE Spread(Same, [rows |-> SortByPosition(
            [i \in DOMAIN playlistTracksArray |->
               [track |-> tracks[playlistTracksArray[i].trackId],
                position |-> playlistTracksArray[i].position]])])

\* The link of a (playlistId, trackId) pair that find() returns
FindLink(pid, tid) ==
  LET all == Values(playlistTracks)
  IN Find(all, {pt \in Range(all) : pt.playlistId = pid /\ pt.trackId = tid})

\* an addTrackToPlaylist that does not look for an existing link
addTrackToPlaylistNoFind(insertPlaylistTrack) ==
  IF insertPlaylistTrack.playlistId \notin DOMAIN playlists
  THEN Spread(Same, [ok |-> FALSE, threw |-> TRUE])
  ELSE IF insertPlaylistTrack.trackId \notin DOMAIN tracks
  THEN Spread(Same, [ok |-> FALSE, threw |-> TRUE])
  ELSE LET id == playlistTrackId
           playlistTrack == Spread(insertPlaylistTrack, [id |-> id])
       IN Spread(Same, [playlistTrackId |-> playlistTrackId + 1,
                        playlistTracks |-> MapSet(playlistTracks, id, playlistTrack),
                        rows |-> <<playlistTrack>>])

\* an addTrackToPlaylist that moves an existing link to the new position
addTrackToPlaylistMove(insertPlaylistTrack) ==
  IF insertPlaylistTrack.playlistId \notin DOMAIN playlists
  THEN Spread(Same, [ok |-> FALSE, threw |-> TRUE])
  ELSE IF insertPlaylistTrack.trackId \notin DOMAIN tracks
  THEN Spread(Same, [ok |-> FALSE, threw |-> TRUE])
  ELSE LET existing == FindLink(insertPlaylistTrack.playlistId, insertPlaylistTrack.trackId)
           id == IF existing # {} THEN (CHOOSE pt \in existing : TRUE).id ELSE playlistTrackId
           playlistTrack == Spread(insertPlaylistTrack, [id |-> id])
       IN Spread(Same, [playlistTrackId |-> IF existing # {} THEN playlistTrackId
                                                               ELSE playlistTrackId + 1,
                        playlistTracks |-> MapSet(playlistTracks, id, playlistTrack),
                        rows |-> <<playlistTrack>>])

addTrackToPlaylist(insertPlaylistTrack) ==
  IF insertPlaylistTrack.playlistId \notin DOMAIN playlists
  THEN Spread(Same, [ok |-> FALSE, threw |-> TRUE])
  ELSE IF insertPlaylistTrack.trackId \notin DOMAIN tracks
  THEN Spread(Same, [ok |-> FALSE, threw |-> TRUE])
  ELSE LET existing == FindLink(insertPlaylistTrack.playlistId, insertPlaylistTrack.trackId)
       IN IF existing # {}
          THEN Spread(Same, [rows |-> <<CHOOSE pt \in existing : TRUE>>])
          ELSE LET id == playlistTrackId
                   playlistTrack == Spread(insertPlaylistTrack, [id |-> id])
               IN Spread(Same, [playlistTrackId |-> playlistTrackId + 1,
                                playlistTracks |-> MapSet(playlistTracks, id, playlistTrack),
                                rows |-> <<playlistTrack>>])

\* a remove that deletes the links of the track in every playlist
removeTrackFromEveryPlaylist(pid, tid) ==
  LET playlistTrack == FindLink(pid, tid)
  IN IF playlistTrack = {} THEN Spread(Same, [ok |-> FALSE])
     ELSE Spread(Same, [playlistTracks |->
            [k \in {x \in DOMAIN playlistTracks : playlistTracks[x].trackId # tid}
               |-> playlistTracks[k]]])

removeTrackFromPlaylist(pid, tid) ==
  LET playlistTrack == FindLink(pid, tid)
  IN IF playlistTrack = {} THEN Spread(Same, [ok |-> FALSE])
     ELSE Spread(Same, [playlistTracks |->
            MapDelete(playlistTracks, (CHOOSE pt \in playlistTrack : TRUE).id)])

\* a reposition that makes room: the links of the playlist at or after the
\* new position move one place up
updateTrackPositionShift(pid, tid, newPosition) ==
  LET playlistTrack == FindLink(pid, tid)
  IN IF playlistTrack = {} THEN Spread(Same, [ok |-> FALSE])
     ELSE LET pt == CHOOSE x \in playlistTrack : TRUE
              shifted(l) == IF l.playlistId = pid /\ l.position >= newPosition
                            THEN Spread(l, [position |-> l.position + 1]) ELSE l
          IN Spread(Same, [playlistTracks |->
               [k \in DOMAIN playlistTracks |->
                  IF k = pt.id THEN Spread(pt, [position |-> newPosition])
                  ELSE shifted(playlistTracks[k])]])

updateTrackPosition(pid, tid, newPosition) ==
  LET playlistTrack == FindLink(pid, tid)
  IN IF playlistTrack = {} THEN Spread(Same, [ok |-> FALSE])
     ELSE LET pt == CHOOSE x \in playlistTrack : TRUE
          IN Spread(Same, [playlistTracks |->
               MapSet(playlistTracks, pt.id, Spread(pt, [position |-> newPosition]))])

-----------------------------------------------------------------------------
(* Direct calls of the store's methods (the IStorage interface) *)

Call(op, e) ==
  /\ ret' = Ret(op, e.ok, e.rows)
  /\ Apply(e)
  /\ UNCHANGED reqs

CreateUser(insertUser) ==
  /\ userId <= SessionUser + MaxCreates
  /\ Call("createUser", createUser(insertUser))

UpdateUser(id, updates) == Call("updateUser", updateUser(id, updates))

CreateCategory(insertCategory) ==
  /\ categoryId <= Len(categoryData) + MaxCreates
  /\ Call("createCategory", createCategory(insertCategory))

UpdateCategory(id, updates) == Call("updateCategory", updateCategory(id, updates))

UpdatePlaylist(id, updates) == Call("updatePlaylist", updatePlaylist(id, updates))

UpdateTrack(id, updates) == Call("updateTrack", updateTrack(id, updates))

DeleteCategory(id) == Call("deleteCategory", deleteCategory(id))

GetCategories(u) == Call("getCategories", Spread(Same, [rows |-> getCategories(u)]))

GetPlaylists(u) == Call("getPlaylists", Spread(Same, [rows |-> getPlaylists(u)]))

GetTracks(u) == Call("getTracks", Spread(Same, [rows |-> getTracks(u)]))

CreatePlaylist(insertPlaylist) ==
  /\ playlistId <= Len(playlistData) + MaxCreates
  /\ Call("createPlaylist", createPlaylist(insertPlaylist))

DeletePlaylist(id) == Call("deletePlaylist", deletePlaylist(id))

CreateTrack(insertTrack) ==
  /\ trackId <= MaxTracks
  /\ Call("createTrack", createTrack(insertTrack))

DeleteTrack(id) == Call("deleteTrack", deleteTrack(id))

GetPlaylistTracks(pid) == Call("getPlaylistTracks", getPlaylistTracks(pid))

AddTrackToPlaylist(insertPlaylistTrack) ==
  /\ addTrackToPlaylist(insertPlaylistTrack).playlistTrackId <= MaxLinks + 1
  /\ Call("addTrackToPlaylist", addTrackToPlaylist(insertPlaylistTrack))

RemoveTrackFromPlaylist(pid, tid) ==
  Call("removeTrackFromPlaylist", removeTrackFromPlaylist(pid, tid))

UpdateTrackPosition(pid, tid, newPosition) ==
  Call("updateTrackPosition", updateTrackPosition(pid, tid, newPosition))

-----------------------------------------------------------------------------
(* Request handlers.  reqs[r] holds the locals of the handler running in   *)
(* slot r between two of its awaits.                                       *)

Slots == 1..MaxRequests

\* JSON values of a request body
Num(n) == [t |-> "number", n |-> n]
Str(x) == [t |-> "string", s |-> x]

\* parseInt of a body field: a JSON number gives that number, a field that
\* is absent (undefined) gives NaN, the empty optional.  The bodies of the
\* model carry numbers or nothing in the fields that are parsed.
ParseInt(body, field) ==
  IF field \in DOMAIN body /\ body[field].t = "number" THEN {body[field].n} ELSE {}

\* res.status(status).json(rows), which ends the handler
Respond(r, status, rows) ==
  /\ reqs' = [reqs EXCEPT ![r] = Idle]
  /\ ret' = Response(reqs[r].op, status, rows)

\* the handler's first statement: look the target up, then yield
Begin(r, op, id, body, found) ==
  /\ reqs[r] = Idle
  /\ reqs' = [reqs EXCEPT ![r] =
       [pc |-> "found", op |-> op, id |-> id, body |-> body, found |-> found]]
  /\ ret' = Nothing
  /\ UNCHANGED store

\* the lookup missed, or the target is another user's
Denied(r) ==
  \/ /\ reqs[r].found = {}
     /\ Respond(r, 404, <<>>)
     /\ UNCHANGED store
  \/ /\ \E x \in reqs[r].found : x.userId # SessionUser
     /\ Respond(r, 403, <<>>)
     /\ UNCHANGED store

\* a handler that goes on for whoever owns the target
AllowedAnyOwner(r) == reqs[r].found # {}

Allowed(r) == \E x \in reqs[r].found : x.userId = SessionUser

\* POST /playlists/:playlistId/tracks

PostPlaylistTrackBegin(r, pid, body) ==
  Begin(r, "POST /playlists/:playlistId/tracks", pid, body, getPlaylistById(pid))

\* Math.max(...playlistTracks.map(pt => pt.position)), or -1
MaxPositionOf(rows) ==
  IF Len(rows) > 0 THEN Max({rows[i].position : i \in DOMAIN rows}) ELSE -1

\* After the lookup: the checks, then getPlaylistTracks.  Of the rows it
\* resolves to, the handler only uses the highest position, kept in the slot.
PostPlaylistTrackRead(r) ==
  /\ reqs[r].pc = "found"
  /\ reqs[r].op = "POST /playlists/:playlistId/tracks"
  /\ \/ Denied(r)
     \/ /\ Allowed(r)
        /\ LET e == getPlaylistTracks(reqs[r].id)
           IN IF e.threw
              THEN Respond(r, 500, <<>>)
              ELSE /\ reqs' = [reqs EXCEPT ![r] =
                        Spread(reqs[r], [pc |-> "read", maxPosition |-> MaxPositionOf(e.rows)])]
                   /\ ret' = Nothing
        /\ UNCHANGED store

\* a handler that takes the position from the request body
PlaylistTrackDataFromBody(pid, body, maxPosition) ==
  [playlistId |-> pid, trackId |-> ParseInt(body, "trackId"),
   position |-> IF ParseInt(body, "position") = {} THEN maxPosition + 1
                ELSE CHOOSE p \in ParseInt(body, "position") : TRUE]

\* the object handed to insertPlaylistTrackSchema.parse
PlaylistTrackData(pid, body, maxPosition) ==
  [playlistId |-> pid, trackId |-> ParseInt(body, "trackId"),
   position |-> maxPosition + 1]

\* a handler that reads the highest position again when it inserts
PostPlaylistTrackAddFresh(r) ==
  /\ reqs[r].pc = "read"
  /\ LET data == PlaylistTrackData(reqs[r].id, reqs[r].body,
                                   MaxPositionOf(getPlaylistTracks(reqs[r].id).rows))
     IN IF data.trackId = {}
        THEN Respond(r, 400, <<>>) /\ UNCHANGED store
        ELSE LET e == addTrackToPlaylist(
                        Spread(data, [trackId |-> CHOOSE t \in data.trackId : TRUE]))
             IN /\ e.playlistTrackId <= MaxLinks + 1
                /\ Apply(e)
                /\ Respond(r, IF e.threw THEN 500 ELSE 201, e.rows)

\* After getPlaylistTracks: a trackId that is NaN fails the schema (400);
\* a throw of addTrackToPlaylist is not a ZodError (500)
PostPlaylistTrackAdd(r) ==
  /\ reqs[r].pc = "read"
  /\ LET data == PlaylistTrackData(reqs[r].id, reqs[r].body, reqs[r].maxPosition)
     IN IF data.trackId = {}
        THEN Respond(r, 400, <<>>) /\ UNCHANGED store
        ELSE LET e == addTrackToPlaylist(
                        Spread(data, [trackId |-> CHOOSE t \in data.trackId : TRUE]))
             IN /\ e.playlistTrackId <= MaxLinks + 1
                /\ Apply(e)
                /\ Respond(r, IF e.threw THEN 500 ELSE 201, e.rows)

\* updateSchema.parse(req.body) for insertXSchema.partial().omit({ userId }):
\* every field of the schema is an optional string, a field of the body that
\* the schema does not have is stripped.  The result is empty on a ZodError.
ParsePartial(body, fields) ==
  LET given == fields \cap DOMAIN body
  IN IF \E k \in given : body[k].t # "string" THEN {}
     ELSE {[k \in given |-> body[k].s]}

\* the fields of insertCategorySchema and insertPlaylistSchema without userId
UpdateFields == {"name", "icon", "color"}

\* PATCH /categories/:id

PatchCategoryBegin(r, id, body) ==
  Begin(r, "PATCH /categories/:id", id, body, getCategoryById(id))

\* a handler that validates the body before it looks at the category
PatchCategoryEndValidateFirst(r) ==
  /\ reqs[r].pc = "found"
  /\ reqs[r].op = "PATCH /categories/:id"
  /\ IF ParsePartial(reqs[r].body, UpdateFields) = {}
     THEN Respond(r, 400, <<>>) /\ UNCHANGED store
     ELSE \/ Denied(r)
          \/ /\ Allowed(r)
             /\ LET e == updateCategory(reqs[r].id,
                            CHOOSE d \in ParsePartial(reqs[r].body, UpdateFields) : TRUE)
                IN Apply(e) /\ Respond(r, 200, e.rows)

PatchCategoryEnd(r) ==
  /\ reqs[r].pc = "found"
  /\ reqs[r].op = "PATCH /categories/:id"
  /\ \/ Denied(r)
     \/ /\ Allowed(r)
        /\ LET data == ParsePartial(reqs[r].body, UpdateFields)
           IN IF data = {}
              THEN Respond(r, 400, <<>>) /\ UNCHANGED store
              ELSE LET e == updateCategory(reqs[r].id, CHOOSE d \in data : TRUE)
                   IN Apply(e) /\ Respond(r, 200, e.rows)

\* DELETE /categories/:id

DeleteCategoryBegin(r, id) ==
  Begin(r, "DELETE /categories/:id", id, <<>>, getCategoryById(id))

DeleteCategoryEnd(r) ==
  /\ reqs[r].pc = "found"
  /\ reqs[r].op = "DELETE /categories/:id"
  /\ \/ Denied(r)
     \/ /\ Allowed(r)
        /\ LET e == deleteCategory(reqs[r].id)
           IN Apply(e) /\ Respond(r, IF e.ok THEN 204 ELSE 500, <<>>)

\* PATCH /playlists/:id

PatchPlaylistBegin(r, id, body) ==
  Begin(r, "PATCH /playlists/:id", id, body, getPlaylistById(id))

PatchPlaylistEnd(r) ==
  /\ reqs[r].pc = "found"
  /\ reqs[r].op = "PATCH /playlists/:id"
  /\ \/ Denied(r)
     \/ /\ Allowed(r)
        /\ LET data == ParsePartial(reqs[r].body, UpdateFields)
           IN IF data = {}
              THEN Respond(r, 400, <<>>) /\ UNCHANGED store
              ELSE LET e == updatePlaylist(reqs[r].id, CHOOSE d \in data : TRUE)
                   IN Apply(e) /\ Respond(r, 200, e.rows)

\* DELETE /playlists/:id

DeletePlaylistBegin(r, id) ==
  Begin(r, "DELETE /playlists/:id", id, <<>>, getPlaylistById(id))

DeletePlaylistEnd(r) ==
  /\ reqs[r].pc = "found"
  /\ reqs[r].op = "DELETE /playlists/:id"
  /\ \/ Denied(r)
     \/ /\ Allowed(r)
        /\ LET e == deletePlaylist(reqs[r].id)
           IN Apply(e) /\ Respond(r, IF e.ok THEN 204 ELSE 500, <<>>)

\* DELETE /tracks/:id

DeleteTrackBegin(r, id) ==
  Begin(r, "DELETE /tracks/:id", id, <<>>, getTrackById(id))

\* a handler that deletes the file first and gives up when that fails
DeleteTrackUnlinkFirst(r) ==
  /\ reqs[r].pc = "found"
  /\ reqs[r].op = "DELETE /tracks/:id"
  /\ \/ Denied(r)
     \/ /\ Allowed(r)
        /\ LET track == CHOOSE x \in reqs[r].found : TRUE
           IN \/ /\ track.filePath \in files
                 /\ Apply(Spread(deleteTrack(reqs[r].id),
                                 [files |-> files \ {track.filePath}]))
                 /\ Respond(r, 204, <<>>)
              \/ /\ UNCHANGED store
                 /\ Respond(r, 500, <<>>)

\* the record is deleted, then the handler yields at await fs.unlink
DeleteTrackEnd(r) ==
  /\ reqs[r].pc = "found"
  /\ reqs[r].op = "DELETE /tracks/:id"
  /\ \/ Denied(r)
     \/ /\ Allowed(r)
        /\ LET e == deleteTrack(reqs[r].id)
           IN /\ Apply(e)
              /\ IF e.ok
                 THEN /\ reqs' = [reqs EXCEPT ![r].pc = "unlink"]
                      /\ ret' = Nothing
                 ELSE Respond(r, 500, <<>>)

\* fs.unlink(track.filePath) removes the file or throws (no such file, no
\* permission, ...); the throw is caught and logged, and 204 is sent
DeleteTrackUnlink(r) ==
  /\ reqs[r].pc = "unlink"
  /\ reqs[r].op = "DELETE /tracks/:id"
  /\ LET track == CHOOSE x \in reqs[r].found : TRUE
     IN \/ /\ track.filePath \in files
           /\ Apply(Spread(Same, [files |-> files \ {track.filePath}]))
        \/ UNCHANGED store
  /\ Respond(r, 204, <<>>)

\* DELETE /playlists/:playlistId/tracks/:trackId

RemovePlaylistTrackBegin(r, pid, tid) ==
  Begin(r, "DELETE /playlists/:playlistId/tracks/:trackId", pid,
        [trackId |-> Num(tid)], getPlaylistById(pid))

RemovePlaylistTrackEnd(r) ==
  /\ reqs[r].pc = "found"
  /\ reqs[r].op = "DELETE /playlists/:playlistId/tracks/:trackId"
  /\ \/ Denied(r)
     \/ /\ Allowed(r)
        /\ LET e == removeTrackFromPlaylist(reqs[r].id, reqs[r].body.trackId.n)
           IN Apply(e) /\ Respond(r, IF e.ok THEN 204 ELSE 404, <<>>)

\* GET /playlists/:id

GetPlaylistBegin(r, id) ==
  Begin(r, "GET /playlists/:id", id, <<>>, getPlaylistById(id))

\* tracks.map(({ track, position }) => ({ ...track, position }))
WithPosition(rows) ==
  [i \in DOMAIN rows |-> Spread(rows[i].track, [position |-> rows[i].position])]

\* the list is read and sent; a throw of getPlaylistTracks is answered 500
GetPlaylistEnd(r) ==
  /\ reqs[r].pc = "found"
  /\ reqs[r].op = "GET /playlists/:id"
  /\ UNCHANGED store
  /\ \/ /\ reqs[r].found = {}
        /\ Respond(r, 404, <<>>)
     \/ /\ \E x \in reqs[r].found : x.userId # SessionUser
        /\ Respond(r, 403, <<>>)
     \/ /\ Allowed(r)
        /\ LET playlist == CHOOSE x \in reqs[r].found : TRUE
               e == getPlaylistTracks(reqs[r].id)
           IN IF e.threw
              THEN Respond(r, 500, <<>>)
              ELSE Respond(r, 200, <<Spread(playlist, [tracks |-> WithPosition(e.rows)])>>)

\* GET /users/me and PATCH /users/me

\* const { password, ...userData } = user
WithoutPassword(user) == [k \in DOMAIN user \ {"password"} |-> user[k]]

\* the keys of insertUserSchema.partial().omit({ password: true }), in the
\* order of the schema
UserUpdateFields == <<"username", "email", "phone", "fullName", "avatarColor">>

\* error.errors of the ZodError: one issue for each field of the schema
\* whose value is not a string; a key the schema does not have is stripped
ZodIssues(body, fields) ==
  LET bad == {k \in Range(fields) \cap DOMAIN body : body[k].t # "string"}
      issue(k) == [code |-> "invalid_type", expected |-> "string",
                   received |-> body[k].t, path |-> k]
  IN [i \in DOMAIN Keep(fields, bad) |-> issue(Keep(fields, bad)[i])]

GetMeBegin(r) == Begin(r, "GET /users/me", SessionUser, <<>>, getUser(SessionUser))

\* a handler that sends the stored user as it is
GetMeEndWhole(r) ==
  /\ reqs[r].pc = "found"
  /\ reqs[r].op = "GET /users/me"
  /\ UNCHANGED store
  /\ IF reqs[r].found = {}
     THEN Respond(r, 404, <<[message |-> "User not found"]>>)
     ELSE Respond(r, 200, <<CHOOSE user \in reqs[r].found : TRUE>>)

GetMeEnd(r) ==
  /\ reqs[r].pc = "found"
  /\ reqs[r].op = "GET /users/me"
  /\ UNCHANGED store
  /\ IF reqs[r].found = {}
     THEN Respond(r, 404, <<[message |-> "User not found"]>>)
     ELSE Respond(r, 200, <<WithoutPassword(CHOOSE user \in reqs[r].found : TRUE)>>)

\* a handler whose schema keeps the password
PatchMeWithPassword(body) ==
  LET data == ParsePartial(body, Range(UserUpdateFields) \cup {"password"})
  IN IF data = {}
     THEN /\ ret' = Response("PATCH /users/me", 400, ZodIssues(body, UserUpdateFields))
          /\ UNCHANGED <<store, reqs>>
     ELSE LET e == updateUser(SessionUser, CHOOSE d \in data : TRUE)
          IN /\ Apply(e)
             /\ ret' = IF e.ok
                       THEN Response("PATCH /users/me", 200, <<WithoutPassword(e.rows[1])>>)
                       ELSE Response("PATCH /users/me", 404, <<[message |-> "User not found"]>>)
             /\ UNCHANGED reqs

\* the body is parsed before the first await; the response follows from
\* what updateUser returned
PatchMe(body) ==
  LET data == ParsePartial(body, Range(UserUpdateFields))
  IN IF data = {}
     THEN /\ ret' = Response("PATCH /users/me", 400, ZodIssues(body, UserUpdateFields))
          /\ UNCHANGED <<store, reqs>>
     ELSE LET e == updateUser(SessionUser, CHOOSE d \in data : TRUE)
          IN /\ Apply(e)
             /\ ret' = IF e.ok
                       THEN Response("PATCH /users/me", 200, <<WithoutPassword(e.rows[1])>>)
                       ELSE Response("PATCH /users/me", 404, <<[message |-> "User not found"]>>)
             /\ UNCHANGED reqs

\* POST /tracks/upload.  The request is multipart: at most one file part,
\* with its declared media type, its size in MiB and the path multer stores
\* it under, and text fields.  The text of a field that is converted with
\* parseInt is a sequence of characters.

allowedMimes == {"audio/mpeg", "audio/wav", "audio/ogg", "audio/mp4", "audio/webm"}

\* limits.fileSize, in MiB
fileSize == 50

DigitChars == <<"0", "1", "2", "3", "4", "5", "6", "7", "8", "9">>

\* what stands for the number NaN
NaN == "NaN"

\* parseInt(text): leading blanks are skipped, then an optional sign, then
\* the longest run of decimal digits; what follows is ignored.  No digit
\* gives NaN, the empty optional.
parseInt(text) ==
  LET blanks == Cardinality({i \in DOMAIN text : \A j \in 1..i : text[j] = " "})
      trimmed == SubSeq(text, blanks + 1, Len(text))
      signed == trimmed # <<>> /\ trimmed[1] \in {"-", "+"}
      sign == IF signed /\ trimmed[1] = "-" THEN -1 ELSE 1
      rest == IF signed THEN Tail(trimmed) ELSE trimmed
      n == Cardinality({i \in DOMAIN rest : \A j \in 1..i : rest[j] \in Range(DigitChars)})
      digit(c) == CHOOSE d \in 0..9 : DigitChars[d + 1] = c
      value[i \in 0..n] == IF i = 0 THEN 0 ELSE value[i - 1] * 10 + digit(rest[i])
  IN IF n = 0 THEN {} ELSE {sign * value[n]}

\* the result of parseInt as the number that is stored
Number(parsed) == IF parsed = {} THEN NaN ELSE CHOOSE x \in parsed : TRUE

\* upload.single('audio'): the file filter and the size limit pass
Accepted(req) ==
  \A f \in req.file : f.mimetype \in allowedMimes /\ f.size <= fileSize

\* the error the middleware passes on
Rejection(req) ==
  IF \E f \in req.file : f.mimetype \notin allowedMimes
  THEN <<[message |-> "Invalid file type. Only audio files are allowed."]>>
  ELSE <<[message |-> "File too large"]>>

\* trackSchema.parse(req.body): name, categoryId and duration are required
\* strings; categoryId and duration are transformed with parseInt
TrackData(body) ==
  IF {"name", "categoryId", "duration"} \subseteq DOMAIN body
  THEN {[name |-> body.name,
         categoryId |-> Number(parseInt(body.categoryId)),
         duration |-> Number(parseInt(body.duration))]}
  ELSE {}

\* an upload handler that runs whatever the file filter said
PostTrackUploadUnfiltered(req) ==
  /\ trackId <= MaxTracks
  /\ \A f \in req.file : f.path \notin files
  /\ UNCHANGED reqs
  /\ IF req.file = {}
     THEN /\ ret' = Response("POST /tracks/upload", 400, <<>>)
          /\ UNCHANGED store
     ELSE LET file == CHOOSE f \in req.file : TRUE
              stored == Spread(Same, [files |-> files \cup {file.path}])
          IN IF TrackData(req.body) = {}
             THEN /\ ret' = Response("POST /tracks/upload", 400, <<>>)
                  /\ Apply(stored)
             ELSE LET trackData == CHOOSE d \in TrackData(req.body) : TRUE
                      e == createTrack(Spread(trackData,
                             [userId |-> SessionUser, filePath |-> file.path]))
                  IN /\ Apply(Spread(e, [files |-> stored.files]))
                     /\ ret' = Response("POST /tracks/upload", 201, e.rows)

\* the middleware passes a rejected file to the error handler, and the
\* route's handler does not run; an accepted file is on disk, under a name
\* no other file has, before the handler runs
PostTrackUpload(req) ==
  /\ trackId <= MaxTracks
  /\ \A f \in req.file : f.path \notin files
  /\ UNCHANGED reqs
  /\ IF ~Accepted(req)
     THEN /\ ret' = Response("POST /tracks/upload", 500, Rejection(req))
          /\ UNCHANGED store
     ELSE IF req.file = {}
     THEN /\ ret' = Response("POST /tracks/upload", 400, <<>>)
          /\ UNCHANGED store
     ELSE LET file == CHOOSE f \in req.file : TRUE
              stored == Spread(Same, [files |-> files \cup {file.path}])
          IN IF TrackData(req.body) = {}
             THEN /\ ret' = Response("POST /tracks/upload", 400, <<>>)
                  /\ Apply(stored)
             ELSE LET trackData == CHOOSE d \in TrackData(req.body) : TRUE
                      e == createTrack(Spread(trackData,
                             [userId |-> SessionUser, filePath |-> file.path]))
                  IN /\ Apply(Spread(e, [files |-> stored.files]))
                     /\ ret' = Response("POST /tracks/upload", 201, e.rows)

\* GET /tracks.  query is the categoryId of the query string, if it has one.

\* req.query.categoryId ? parseInt(req.query.categoryId) : undefined, and
\* then if (categoryId): the empty text, NaN and 0 select no category
CategoryOfQuery(query) ==
  {c \in UNION {parseInt(text) : text \in query} : c # 0}

\* without a category the tracks of the caller are sent; with one, the
\* category is looked up and the handler yields
GetTracksBegin(r, query) ==
  IF CategoryOfQuery(query) = {}
  THEN /\ reqs[r] = Idle
       /\ ret' = Response("GET /tracks", 200, getTracks(SessionUser))
       /\ UNCHANGED <<store, reqs>>
  ELSE LET c == CHOOSE x \in CategoryOfQuery(query) : TRUE
       IN Begin(r, "GET /tracks", c, <<>>, getCategoryById(c))

\* a category that is missing or another user's is answered 403
GetTracksEnd(r) ==
  /\ reqs[r].pc = "found"
  /\ reqs[r].op = "GET /tracks"
  /\ UNCHANGED store
  /\ IF Allowed(r)
     THEN Respond(r, 200, getTracksByCategory(reqs[r].id))
     ELSE Respond(r, 403, <<>>)

-----------------------------------------------------------------------------
(* The playlist-track ordering under interleaved request handlers: the     *)
(* link routes and the two cascading deletes, with the direct calls that   *)
(* have no route (createTrack, updateTrackPosition)                        *)

\* positions a direct store call passes: the first one the handler assigns,
\* and one below it
Positions == {-1, 0}

\* playlist 3 of the default data, and an id no playlist has
OrderingPlaylists == Len(playlistData)..(Len(playlistData) + 1)

TrackIds == 1..MaxTracks

NewTrack(u) ==
  [name |-> "clip", userId |-> u, categoryId |-> 1, duration |-> 42,
   filePath |-> "uploads/clip.webm"]

\* the body the Upload page sends for track t
UploadBody(t) == [trackId |-> Num(t), position |-> Num(9999)]

\* the bodies of the Upload page, and one without a trackId
PlaylistTrackBodies ==
  {UploadBody(t) : t \in TrackIds} \cup {[position |-> Num(9999)]}

\* no handler is running
Quiet == \A r \in Slots : reqs[r] = Idle

\* a new request takes the lowest free slot
Free(r) == reqs[r] = Idle /\ \A q \in Slots : q < r => reqs[q] # Idle

OrderingNext ==
  \/ CreateTrack(NewTrack(SessionUser))
  \/ \E tid \in TrackIds : RemoveTrackFromPlaylist(Len(playlistData), tid)
  \/ \E tid \in TrackIds, pos \in Positions :
       UpdateTrackPosition(Len(playlistData), tid, pos)
  \/ \E r \in Slots, pid \in OrderingPlaylists, body \in PlaylistTrackBodies :
       Free(r) /\ PostPlaylistTrackBegin(r, pid, body)
  \/ \E r \in Slots : PostPlaylistTrackRead(r)
  \/ \E r \in Slots : PostPlaylistTrackAdd(r)
  \/ \E r \in Slots, id \in OrderingPlaylists : Free(r) /\ DeletePlaylistBegin(r, id)
  \/ \E r \in Slots : DeletePlaylistEnd(r)
  \/ \E r \in Slots, id \in TrackIds : Free(r) /\ DeleteTrackBegin(r, id)
  \/ \E r \in Slots : DeleteTrackEnd(r)
  \/ \E r \in Slots : DeleteTrackUnlink(r)

SpecOrdering == Init /\ [][OrderingNext]_vars

-----------------------------------------------------------------------------
(* The playlist-track ordering called directly: the link methods of the    *)
(* store and the two cascading deletes                                     *)

\* playlists 2 and 3 of the default data
StoredPlaylists == (Len(playlistData) - 1)..Len(playlistData)

LinksNext ==
  \/ CreateTrack(NewTrack(SessionUser))
  \/ \E id \in TrackIds : DeleteTrack(id)
  \/ \E id \in StoredPlaylists : DeletePlaylist(id)
  \/ \E pid \in StoredPlaylists : GetPlaylistTracks(pid)
  \/ \E pid \in StoredPlaylists, tid \in TrackIds, pos \in Positions :
       AddTrackToPlaylist([playlistId |-> pid, trackId |-> tid, position |-> pos])
  \/ \E pid \in StoredPlaylists, tid \in TrackIds : RemoveTrackFromPlaylist(pid, tid)
  \/ \E pid \in StoredPlaylists, tid \in TrackIds, pos \in Positions :
       UpdateTrackPosition(pid, tid, pos)

SpecLinks == Init /\ [][LinksNext]_vars

-----------------------------------------------------------------------------
(* The link routes without interleaving: a request starts only when no     *)
(* handler is running; tracks are created and links moved by direct calls  *)

\* playlists 2 and 3 of the default data, and an id no playlist has
SerialPlaylists == (Len(playlistData) - 1)..(Len(playlistData) + 1)

SerialNext ==
  \/ Quiet /\ CreateTrack(NewTrack(SessionUser))
  \/ \E tid \in TrackIds, pos \in Positions :
       Quiet /\ UpdateTrackPosition(Len(playlistData), tid, pos)
  \/ \E r \in Slots, pid \in SerialPlaylists, body \in PlaylistTrackBodies :
       Quiet /\ Free(r) /\ PostPlaylistTrackBegin(r, pid, body)
  \/ \E r \in Slots : PostPlaylistTrackRead(r)
  \/ \E r \in Slots : PostPlaylistTrackAdd(r)
  \/ \E r \in Slots, pid \in SerialPlaylists, tid \in TrackIds :
       Quiet /\ Free(r) /\ RemovePlaylistTrackBegin(r, pid, tid)
  \/ \E r \in Slots : RemovePlaylistTrackEnd(r)
  \/ \E pid \in SerialPlaylists, tid \in TrackIds :
       Quiet /\ RemoveTrackFromPlaylist(pid, tid)

SpecSerial == Init /\ [][SerialNext]_vars

-----------------------------------------------------------------------------
(* The entity store called directly: creates, deletes and owner-scoped     *)
(* lists of categories, playlists and tracks.  The default categories and  *)
(* playlists are the session user's, the created ones another owner's;     *)
(* tracks are created for both.                                            *)

Stranger == SessionUser + 1

\* the session user and one other owner
Users == {SessionUser, Stranger}

\* the last category of the default data and the ids of created ones
CategoryIds == Len(categoryData)..(Len(categoryData) + MaxCreates)

\* the last playlist of the default data and the ids of created ones
PlaylistIds == Len(playlistData)..(Len(playlistData) + MaxCreates)

NewCategory(u) ==
  [name |-> "Ideas", icon |-> "ri-mic-fill", color |-> "#FF5722", userId |-> u]

NewPlaylist(u) ==
  [name |-> "Demo", icon |-> "ri-mic-fill", color |-> "#FF5722", userId |-> u]

Next ==
  \/ CreateCategory(NewCategory(Stranger))
  \/ \E id \in CategoryIds : DeleteCategory(id)
  \/ \E u \in Users : GetCategories(u)
  \/ CreatePlaylist(NewPlaylist(Stranger))
  \/ \E id \in PlaylistIds : DeletePlaylist(id)
  \/ \E u \in Users : GetPlaylists(u)
  \/ \E u \in Users : CreateTrack(NewTrack(u))
  \/ \E id \in TrackIds : DeleteTrack(id)
  \/ \E u \in Users : GetTracks(u)

Spec == Init /\ [][Next]_vars

-----------------------------------------------------------------------------
(* The handlers that check ownership, one request at a time, while direct  *)
(* calls store other users' entities between the handler's awaits; the     *)
(* last track may be the session user's.  The link routes are asked for    *)
(* the first track.                                                        *)

\* a well-formed body, and one whose name is a number
PatchBodies == {[name |-> Str("renamed")], [name |-> Num(7)]}

HandlersNext ==
  \/ CreateCategory(NewCategory(Stranger))
  \/ CreatePlaylist(NewPlaylist(Stranger))
  \/ \E u \in Users : (u = SessionUser => trackId = MaxTracks) /\ CreateTrack(NewTrack(u))
  \/ \E r \in Slots, id \in CategoryIds, body \in PatchBodies :
       Quiet /\ Free(r) /\ PatchCategoryBegin(r, id, body)
  \/ \E r \in Slots : PatchCategoryEnd(r)
  \/ \E r \in Slots, id \in CategoryIds : Quiet /\ Free(r) /\ DeleteCategoryBegin(r, id)
  \/ \E r \in Slots : DeleteCategoryEnd(r)
  \/ \E r \in Slots, id \in PlaylistIds, body \in PatchBodies :
       Quiet /\ Free(r) /\ PatchPlaylistBegin(r, id, body)
  \/ \E r \in Slots : PatchPlaylistEnd(r)
  \/ \E r \in Slots, id \in PlaylistIds : Quiet /\ Free(r) /\ DeletePlaylistBegin(r, id)
  \/ \E r \in Slots : DeletePlaylistEnd(r)
  \/ \E r \in Slots, id \in TrackIds : Quiet /\ Free(r) /\ DeleteTrackBegin(r, id)
  \/ \E r \in Slots : DeleteTrackEnd(r)
  \/ \E r \in Slots : DeleteTrackUnlink(r)
  \/ \E r \in Slots, pid \in PlaylistIds :
       Quiet /\ Free(r) /\ PostPlaylistTrackBegin(r, pid, UploadBody(1))
  \/ \E r \in Slots : PostPlaylistTrackRead(r)
  \/ \E r \in Slots : PostPlaylistTrackAdd(r)
  \/ \E r \in Slots, pid \in PlaylistIds :
       Quiet /\ Free(r) /\ RemovePlaylistTrackBegin(r, pid, 1)
  \/ \E r \in Slots : RemovePlaylistTrackEnd(r)

SpecHandlers == Init /\ [][HandlersNext]_vars

-----------------------------------------------------------------------------
(* Properties of the entity store *)

\* in a step from map m and counter c to map n and counter d: the counter
\* does not go back, every key is below it and is the id of its entity, and
\* a key that is new is at least the old counter
FreshIds(m, c, n, d) ==
  /\ d >= c
  /\ \A k \in DOMAIN n : k < d /\ n[k].id = k
  /\ \A k \in DOMAIN n : k \notin DOMAIN m => k >= c

\* C6: per entity type every id ever assigned is below the counter and a
\* create assigns the counter's value, so ids are unique, increase strictly
\* and are not assigned again after a delete
C6_IdsIncrease ==
  [][/\ FreshIds(categories, categoryId, categories', categoryId')
     /\ FreshIds(playlists, playlistId, playlists', playlistId')
     /\ FreshIds(tracks, trackId, tracks', trackId')]_vars

\* a track has just been created with id 2 after track 1 was deleted, in a
\* store where a category and a playlist were created after a delete too
C6_Witness ==
  /\ ret.op = "createTrack" /\ ret.rows[1].id = 2
  /\ DOMAIN tracks = {2}
  /\ Len(categoryData) \notin DOMAIN categories
  /\ Len(categoryData) + 1 \in DOMAIN categories
  /\ Len(playlistData) \notin DOMAIN playlists
  /\ Len(playlistData) + 1 \in DOMAIN playlists

\* rows are the entities of map m owned by u, each once
OwnedExactly(rows, m, u) ==
  LET owned == {k \in DOMAIN m : m[k].userId = u}
  IN /\ Range(rows) = {m[k] : k \in owned}
     /\ Len(rows) = Cardinality(owned)

\* C7: in every state the owner-scoped lists of categories, playlists and
\* tracks return exactly the stored entities whose userId is the argument;
\* an entity that has just been created is in its owner's list, and a list
\* that has just been returned is the list of one owner
C7_ListByOwner ==
  /\ \A u \in Users :
       /\ OwnedExactly(getCategories(u), categories, u)
       /\ OwnedExactly(getPlaylists(u), playlists, u)
       /\ OwnedExactly(getTracks(u), tracks, u)
  /\ ret.op = "createCategory" => ret.rows[1] \in Range(getCategories(ret.rows[1].userId))
  /\ ret.op = "createPlaylist" => ret.rows[1] \in Range(getPlaylists(ret.rows[1].userId))
  /\ ret.op = "createTrack" => ret.rows[1] \in Range(getTracks(ret.rows[1].userId))
  /\ ret.op = "getCategories" => \E u \in Users : OwnedExactly(ret.rows, categories, u)
  /\ ret.op = "getPlaylists" => \E u \in Users : OwnedExactly(ret.rows, playlists, u)
  /\ ret.op = "getTracks" => \E u \in Users : OwnedExactly(ret.rows, tracks, u)

\* a list of tracks has just returned one of the two stored tracks: the
\* other one is another user's
C7_Witness ==
  /\ ret.op = "getTracks"
  /\ Len(ret.rows) = 1
  /\ Cardinality(DOMAIN tracks) = 2

-----------------------------------------------------------------------------
(* Properties of the request handlers *)

\* slot r runs a handler that has looked its target up and found another
\* user's entity
FoundForeign(r) ==
  /\ reqs[r] # Idle
  /\ reqs[r].pc = "found"
  /\ \E x \in reqs[r].found : x.userId # SessionUser

\* C8: a PATCH or DELETE of a category, playlist or track, and an add or
\* remove of a playlist link, whose target is another user's, is answered
\* 403 and leaves the store as it was
C8_ForeignIsForbidden ==
  [][\A r \in Slots :
       (FoundForeign(r) /\ reqs'[r] # reqs[r])
         => ret'.status = 403 /\ ret'.op = reqs[r].op /\ UNCHANGED store]_vars

\* a PATCH of another user's playlist has just been answered 403 and the
\* playlist is stored as it was created
C8_Witness ==
  /\ ret.op = "PATCH /playlists/:id" /\ ret.status = 403
  /\ Len(playlistData) + 1 \in DOMAIN playlists
  /\ playlists[Len(playlistData) + 1] =
       Spread(NewPlaylist(Stranger), [id |-> Len(playlistData) + 1])

\* slot r runs a PATCH of a category or playlist whose body fails the schema
PatchingMalformed(r) ==
  /\ reqs[r] # Idle
  /\ reqs[r].op \in {"PATCH /categories/:id", "PATCH /playlists/:id"}
  /\ ParsePartial(reqs[r].body, UpdateFields) = {}

-----------------------------------------------------------------------------
(* Properties of the playlist-track ordering *)

Links == {playlistTracks[k] : k \in DOMAIN playlistTracks}

LinksOf(pid) == {l \in Links : l.playlistId = pid}

Linked(pid, tid) == \E l \in Links : l.playlistId = pid /\ l.trackId = tid

PostLink == "POST /playlists/:playlistId/tracks"

\* slot r runs the add-to-playlist handler
Adding(r) == reqs[r] # Idle /\ reqs[r].op = PostLink

\* C1: there is at most one link per (playlistId, trackId) pair, in every
\* state reachable by removes, repositions, deletes and interleaved
\* add-to-playlist handlers
C1_PairUnique ==
  \A j, k \in DOMAIN playlistTracks :
     (playlistTracks[j].playlistId = playlistTracks[k].playlistId
        /\ playlistTracks[j].trackId = playlistTracks[k].trackId) => j = k

\* one add handler has just inserted a link while another one, for the same
\* pair, is between its read of the playlist and its own insert
C1_Witness ==
  /\ ret.op = PostLink /\ ret.status = 201
  /\ ret.rows[1].id = playlistTrackId - 1
  /\ \E r \in Slots :
       /\ Adding(r) /\ reqs[r].pc = "read"
       /\ reqs[r].id = ret.rows[1].playlistId
       /\ ParseInt(reqs[r].body, "trackId") = {ret.rows[1].trackId}

\* C2: add(playlistId, trackId) for a pair that is already linked returns the
\* stored link of the pair and changes nothing in the store (no row, no
\* position, no id consumed); the ordered list of the playlist then has
\* exactly one entry for the pair
C2_SecondAddReturnsSame ==
  [][ret'.op = "addTrackToPlaylist" =>
     \A pid \in StoredPlaylists, tid \in TrackIds :
       Linked(pid, tid) =>
         LET link == CHOOSE l \in Links : l.playlistId = pid /\ l.trackId = tid
             listed == getPlaylistTracks(pid).rows
         IN \A pos \in Positions :
              AddTrackToPlaylist([playlistId |-> pid, trackId |-> tid, position |-> pos])
                => /\ UNCHANGED store
                   /\ ret'.ok /\ ret'.rows = <<link>>
                   /\ Cardinality({i \in DOMAIN listed : listed[i].track.id = tid}) = 1]_vars

\* an add has just returned a link that is not the newest one, so one that
\* was stored before the call
C2_Witness ==
  /\ ret.op = "addTrackToPlaylist" /\ ret.ok
  /\ ret.rows[1].id < playlistTrackId - 1
  /\ ret.rows[1] \in Links

\* C3: run without interleaving, the add handler gives a new link position 0
\* when the playlist has no link and the highest position of the playlist's
\* links plus one otherwise, whatever position the request body carries
C3_NextPosition ==
  [][\A r \in Slots :
       (/\ Adding(r) /\ reqs[r].pc = "read" /\ reqs'[r] = Idle
        /\ DOMAIN playlistTracks' # DOMAIN playlistTracks)
         => LET before == LinksOf(reqs[r].id)
                new == CHOOSE k \in DOMAIN playlistTracks' : k \notin DOMAIN playlistTracks
            IN playlistTracks'[new].position =
                 IF before = {} THEN 0 ELSE Max({l.position : l \in before}) + 1]_vars

\* the handler has just added a second track to a playlist, at position 1,
\* from a body that asked for position 9999
C3_Witness ==
  /\ ret.op = PostLink /\ ret.status = 201
  /\ ret.rows[1].id = playlistTrackId - 1
  /\ ret.rows[1].position = 1
  /\ \E l \in LinksOf(ret.rows[1].playlistId) : l.position = 0

\* C4: every link references a playlist and a track that are in the store,
\* also while deletes interleave with add-to-playlist handlers, so that
\* getPlaylistTracks never throws
C4_LinksReferToStored ==
  /\ \A l \in Links : l.playlistId \in DOMAIN playlists /\ l.trackId \in DOMAIN tracks
  /\ \A pid \in OrderingPlaylists : ~getPlaylistTracks(pid).threw

\* a track delete has just answered 204 and no link is left of those that
\* were inserted, while an add handler for a track that is gone is between
\* its read and its insert
C4_Witness ==
  /\ ret.op = "DELETE /tracks/:id" /\ ret.status = 204
  /\ playlistTrackId > 1 /\ Links = {}
  /\ \E r \in Slots :
       /\ Adding(r) /\ reqs[r].pc = "read"
       /\ \E t \in ParseInt(reqs[r].body, "trackId") : t \notin DOMAIN tracks /\ t < trackId

\* C5: deletePlaylist(P) leaves no link of P and leaves the links of every
\* other playlist and all tracks as they were; the ordered list of a
\* playlist that is not stored is empty
C5_DeletePlaylistCascades ==
  /\ [][ret'.op = "deletePlaylist" =>
        \A pid \in StoredPlaylists :
          DeletePlaylist(pid) =>
            /\ \A k \in DOMAIN playlistTracks' : playlistTracks'[k].playlistId # pid
            /\ \A k \in DOMAIN playlistTracks :
                 playlistTracks[k].playlistId # pid =>
                   k \in DOMAIN playlistTracks' /\ playlistTracks'[k] = playlistTracks[k]
            /\ DOMAIN playlistTracks' \subseteq DOMAIN playlistTracks
            /\ tracks' = tracks]_vars
  /\ [](\A pid \in StoredPlaylists :
          pid \notin DOMAIN playlists =>
            getPlaylistTracks(pid).rows = <<>> /\ ~getPlaylistTracks(pid).threw)

\* a playlist has just been deleted, a link that was inserted is gone and a
\* link of another playlist is still there
C5_Witness ==
  /\ ret.op = "deletePlaylist" /\ ret.ok
  /\ Links # {}
  /\ playlistTrackId > Cardinality(Links) + 1

\* C9: the add-to-playlist handler answers 404 and creates no link when the
\* playlist does not exist, and also when the track does not exist
C9_MissingIsNotFound ==
  [][\A r \in Slots :
       (/\ Adding(r) /\ reqs'[r] = Idle
        /\ \/ reqs[r].id \notin DOMAIN playlists
           \/ \E t \in ParseInt(reqs[r].body, "trackId") : t \notin DOMAIN tracks)
         => ret'.status = 404 /\ playlistTracks' = playlistTracks]_vars

-----------------------------------------------------------------------------
(* The users: the two routes of the session user's profile, one GET at a  *)
(* time, with direct calls of createUser and updateUser, which have no    *)
(* route, and PATCH requests between its awaits                           *)

\* the username of the default user and another one
Usernames == {defaultUser.username, "guest"}

\* the password of the default user and another one
Passwords == {defaultUser.password, "hunter2"}

NewUser(username) == [username |-> username, password |-> "hunter2"]

UserIds == SessionUser..(SessionUser + MaxCreates)

\* what a direct call of updateUser changes: the password, or the username
\* to the one the default user has
UserUpdates == {[password |-> "hunter2"], [username |-> defaultUser.username]}

\* a new full name, a new username with a password that the schema strips,
\* and a username that is a number
UserBodies ==
  { [fullName |-> Str("Demo")],
    [username |-> Str("guest"), password |-> Str("hunter2")],
    [username |-> Num(7), password |-> Str("hunter2")] }

UsersNext ==
  \/ \E n \in Usernames : CreateUser(NewUser(n))
  \/ \E id \in UserIds, updates \in UserUpdates : UpdateUser(id, updates)
  \/ \E r \in Slots : Quiet /\ Free(r) /\ GetMeBegin(r)
  \/ \E r \in Slots : GetMeEnd(r)
  \/ \E body \in UserBodies : PatchMe(body)

SpecUsers == Init /\ [][UsersNext]_vars

MeRoutes == {"GET /users/me", "PATCH /users/me"}

\* C11: a response of GET /users/me or PATCH /users/me, success or error,
\* has no row with a password field, and no text field of it carries a
\* stored password: the response is the same whatever the stored password is
C11_NoPasswordInResponse ==
  ret.op \in MeRoutes =>
    \A i \in DOMAIN ret.rows :
      /\ "password" \notin DOMAIN ret.rows[i]
      /\ \A k \in DOMAIN ret.rows[i] \ {"id"} : ret.rows[i][k] \notin Passwords

\* a successful response for a user whose stored password was changed
C11_Witness ==
  /\ ret.op \in MeRoutes
  /\ ret.status = 200
  /\ users[SessionUser].password # defaultUser.password
  /\ ret.rows = <<WithoutPassword(users[SessionUser])>>

\* C12: no two stored users have the same username
C12_UsernamesUnique ==
  \A a, b \in DOMAIN users : users[a].username = users[b].username => a = b

-----------------------------------------------------------------------------
(* Uploads and the deletion of tracks with their files, one DELETE at a     *)
(* time, with uploads and direct calls that link a track to the last       *)
(* playlist of the default data between its awaits                         *)

\* the names multer gives to stored files
Paths == {"uploads/1.webm", "uploads/2.mp3"}

\* an allowed media type and one that is not
Mimes == {"audio/webm", "text/plain"}

\* file sizes in MiB, one below and one above the limit
Sizes == {1, fileSize + 1}

\* the form the Upload page sends (no categoryId, duration '0'), the form
\* the Recorder sends, and a form with a negative duration
UploadPageForm == [name |-> "song.mp3", duration |-> <<"0">>]

RecorderForm == [name |-> "Recording", categoryId |-> <<"1">>, duration |-> <<"4", "2">>]

UploadForms ==
  { UploadPageForm, RecorderForm,
    [name |-> "Recording", categoryId |-> <<"1">>, duration |-> <<"-", "5">>] }

Uploads ==
  [file : {{}} \cup {{f} : f \in [mimetype : Mimes, size : Sizes, path : Paths]},
   body : UploadForms]

UploadNext ==
  \/ \E req \in Uploads : PostTrackUpload(req)
  \/ \E tid \in TrackIds :
       AddTrackToPlaylist([playlistId |-> Len(playlistData), trackId |-> tid, position |-> 0])
  \/ \E r \in Slots, id \in TrackIds : Quiet /\ Free(r) /\ DeleteTrackBegin(r, id)
  \/ \E r \in Slots : DeleteTrackEnd(r)
  \/ \E r \in Slots : DeleteTrackUnlink(r)

SpecUpload == Init /\ [][UploadNext]_vars

\* C13: an upload whose declared media type is not in the allow-list is
\* rejected before the handler runs: it is answered with an error and the
\* track map, the track id counter and the rest of the store are unchanged
C13_DisallowedTypeRejected ==
  [][ret'.op = "POST /tracks/upload" =>
       \A req \in Uploads :
         (\E f \in req.file : f.mimetype \notin allowedMimes) /\ PostTrackUpload(req)
           => /\ ret'.status >= 400
              /\ tracks' = tracks
              /\ trackId' = trackId
              /\ UNCHANGED store]_vars

\* an upload was rejected when a track was already stored
C13_Witness ==
  /\ ret = Response("POST /tracks/upload", 500,
                    <<[message |-> "Invalid file type. Only audio files are allowed."]>>)
  /\ tracks # <<>>

\* C14: an upload with an allowed audio file, a name and a duration but no
\* categoryId is answered 201 and creates a track
C14_CategoryIdOptional ==
  [][ret'.op = "POST /tracks/upload" =>
       \A req \in Uploads :
         /\ req.file # {}
         /\ Accepted(req)
         /\ {"name", "duration"} \subseteq DOMAIN req.body
         /\ "categoryId" \notin DOMAIN req.body
         /\ PostTrackUpload(req)
         => /\ ret'.status = 201
            /\ DOMAIN tracks' = DOMAIN tracks \cup {trackId}]_vars

\* C16: every stored track has a duration of at least 0
C16_DurationNotNegative ==
  \A id \in DOMAIN tracks : tracks[id].duration >= 0

\* C15: DELETE /tracks/:id on a stored track of the caller removes the
\* record and its links and then attempts the file deletion: while the
\* handler waits for fs.unlink the record and its links are gone, and
\* whether unlink removes the file or fails, the handler answers 204 and the
\* record stays removed
C15_RecordRemovedWhateverUnlink ==
  /\ [][\A r \in Slots :
          /\ reqs[r].pc = "found"
          /\ reqs[r].op = "DELETE /tracks/:id"
          /\ Allowed(r)
          /\ reqs[r].id \in DOMAIN tracks
          /\ reqs'[r] # reqs[r]
          => /\ reqs'[r].pc = "unlink"
             /\ files' = files]_vars
  /\ [](\A r \in Slots :
          reqs[r].pc = "unlink" =>
            /\ reqs[r].id \notin DOMAIN tracks
            /\ \A l \in DOMAIN playlistTracks : playlistTracks[l].trackId # reqs[r].id)
  /\ [][\A r \in Slots :
          reqs[r].pc = "unlink" /\ reqs'[r] # reqs[r]
          => /\ ret' = Response("DELETE /tracks/:id", 204, <<>>)
             /\ tracks' = tracks
             /\ playlistTracks' = playlistTracks]_vars

\* a delete was answered 204 and every file is still on disk, so the file
\* of the deleted track was not removed; no track is left, and of the links
\* that were made none is left
C15_Witness ==
  /\ ret = Response("DELETE /tracks/:id", 204, <<>>)
  /\ files = Paths
  /\ tracks = <<>>
  /\ playlistTrackId > 1
  /\ playlistTracks = <<>>

-----------------------------------------------------------------------------
(* Positions and the frame of reposition and remove *)

\* tracks are created and linked at position 0, and links are repositioned,
\* by direct calls
PositionsNext ==
  \/ CreateTrack(NewTrack(SessionUser))
  \/ \E pid \in StoredPlaylists, tid \in TrackIds :
       AddTrackToPlaylist([playlistId |-> pid, trackId |-> tid, position |-> 0])
  \/ \E pid \in StoredPlaylists, tid \in TrackIds, pos \in Positions :
       UpdateTrackPosition(pid, tid, pos)

SpecPositions == Init /\ [][PositionsNext]_vars

\* C17: every stored link has a position of at least 0
C17_PositionsNotNegative ==
  \A l \in Links : l.position >= 0

\* the fields of the store other than the links
ExceptLinks ==
  <<users, categories, playlists, tracks,
    userId, categoryId, playlistId, trackId, playlistTrackId, files>>

\* C18: a reposition of a stored link sets the position of that link and
\* returns true; every other link, the other fields of that link and every
\* other map are as before, also when another link of the playlist has the
\* new position; a reposition of a pair that is not linked returns false
\* and changes nothing
C18_RepositionFrame ==
  [][ret'.op = "updateTrackPosition" =>
     \A pid \in StoredPlaylists, tid \in TrackIds, pos \in Positions :
       UpdateTrackPosition(pid, tid, pos) =>
         IF Linked(pid, tid)
         THEN LET link == CHOOSE l \in Links : l.playlistId = pid /\ l.trackId = tid
              IN /\ ret'.ok
                 /\ DOMAIN playlistTracks' = DOMAIN playlistTracks
                 /\ playlistTracks'[link.id] = Spread(link, [position |-> pos])
                 /\ \A k \in DOMAIN playlistTracks \ {link.id} :
                      playlistTracks'[k] = playlistTracks[k]
                 /\ UNCHANGED ExceptLinks
         ELSE ~ret'.ok /\ UNCHANGED store]_vars

\* a reposition has just returned true and the two links of the store are
\* in one playlist at one position
C18_Witness ==
  /\ ret.op = "updateTrackPosition" /\ ret.ok
  /\ Cardinality(Links) = 2
  /\ \A a, b \in Links : a.playlistId = b.playlistId /\ a.position = b.position

\* slot r runs the handler that removes a link and has found the playlist
Removing(r) ==
  /\ reqs[r].pc = "found"
  /\ reqs[r].op = "DELETE /playlists/:playlistId/tracks/:trackId"

\* C19: a remove of a stored link deletes that link and no other and
\* returns true; a remove of a pair that is not linked returns false and
\* changes nothing, and the handler answers it with 404; no remove deletes
\* a track or a link of the track in another playlist
C19_RemoveFrame ==
  /\ [][ret'.op = "removeTrackFromPlaylist" =>
        \A pid \in SerialPlaylists, tid \in TrackIds :
          RemoveTrackFromPlaylist(pid, tid) =>
            IF Linked(pid, tid)
            THEN LET link == CHOOSE l \in Links : l.playlistId = pid /\ l.trackId = tid
                 IN /\ ret'.ok
                    /\ playlistTracks' = MapDelete(playlistTracks, link.id)
                    /\ UNCHANGED ExceptLinks
            ELSE ~ret'.ok /\ UNCHANGED store]_vars
  /\ [][\A r \in Slots :
          Removing(r) /\ Allowed(r) /\ reqs'[r] # reqs[r] =>
            IF Linked(reqs[r].id, reqs[r].body.trackId.n)
            THEN /\ ret'.status = 204
                 /\ Links' = {l \in Links : ~(/\ l.playlistId = reqs[r].id
                                               /\ l.trackId = reqs[r].body.trackId.n)}
                 /\ UNCHANGED ExceptLinks
            ELSE ret'.status = 404 /\ UNCHANGED store]_vars

\* the handler has just answered 404 for a track that is stored and linked,
\* in another playlist
C19_Witness ==
  /\ ret.op = "DELETE /playlists/:playlistId/tracks/:trackId"
  /\ ret.status = 404
  /\ \E l \in Links : l.trackId \in DOMAIN tracks /\ l.playlistId \in DOMAIN playlists

-----------------------------------------------------------------------------
(* The update methods of the store, called directly *)

\* the last two categories and playlists of the default data, and an id
\* that none has
UpdatedCategories == (Len(categoryData) - 1)..(Len(categoryData) + 1)

UpdatedPlaylists == (Len(playlistData) - 1)..(Len(playlistData) + 1)

\* the partial records an update is called with: no field, one field,
\* and two fields one of which is the owner
CategoryUpdates ==
  { <<>>, [name |-> "renamed"], [color |-> "#000000", userId |-> Stranger] }

PlaylistUpdates == { <<>>, [name |-> "renamed"] }

TrackUpdates == { <<>>, [duration |-> 7, userId |-> Stranger] }

UpdatesNext ==
  \/ CreateTrack(NewTrack(SessionUser))
  \/ \E id \in UpdatedCategories, updates \in CategoryUpdates : UpdateCategory(id, updates)
  \/ \E id \in UpdatedPlaylists, updates \in PlaylistUpdates : UpdatePlaylist(id, updates)
  \/ \E id \in TrackIds, updates \in TrackUpdates : UpdateTrack(id, updates)

SpecUpdates == Init /\ [][UpdatesNext]_vars

\* the map after an update of a stored id: the record of id has the given
\* fields overwritten and its other fields as before, the update returned
\* it, and every other record is as before
Merged(before, after, id, updates) ==
  /\ DOMAIN after = DOMAIN before
  /\ DOMAIN after[id] = DOMAIN before[id]
  /\ \A k \in DOMAIN before[id] :
       after[id][k] = IF k \in DOMAIN updates THEN updates[k] ELSE before[id][k]
  /\ after[id].id = id
  /\ \A other \in DOMAIN before \ {id} : after[other] = before[other]
  /\ ret'.ok /\ ret'.rows = <<after[id]>>

\* the update of an unknown id returned nothing and did not throw
Absent(effect) ==
  /\ ~ret'.ok /\ ret'.rows = <<>>
  /\ ~effect.threw
  /\ UNCHANGED store

\* C20: an update of a stored category, playlist or track returns and
\* stores the old record with the given fields overwritten and the other
\* fields, the id among them, as before, and changes no other record and no
\* other map; an update of an unknown id returns absent, does not throw and
\* changes nothing
C20_UpdateMerges ==
  /\ [][ret'.op = "updateCategory" =>
        \A id \in UpdatedCategories, updates \in CategoryUpdates :
          UpdateCategory(id, updates) =>
            IF id \in DOMAIN categories
            THEN /\ Merged(categories, categories', id, updates)
                 /\ UNCHANGED <<users, playlists, tracks, playlistTracks, files,
                                userId, categoryId, playlistId, trackId, playlistTrackId>>
            ELSE Absent(updateCategory(id, updates))]_vars
  /\ [][ret'.op = "updatePlaylist" =>
        \A id \in UpdatedPlaylists, updates \in PlaylistUpdates :
          UpdatePlaylist(id, updates) =>
            IF id \in DOMAIN playlists
            THEN /\ Merged(playlists, playlists', id, updates)
                 /\ UNCHANGED <<users, categories, tracks, playlistTracks, files,
                                userId, categoryId, playlistId, trackId, playlistTrackId>>
            ELSE Absent(updatePlaylist(id, updates))]_vars
  /\ [][ret'.op = "updateTrack" =>
        \A id \in TrackIds, updates \in TrackUpdates :
          UpdateTrack(id, updates) =>
            IF id \in DOMAIN tracks
            THEN /\ Merged(tracks, tracks', id, updates)
                 /\ UNCHANGED <<users, categories, playlists, playlistTracks, files,
                                userId, categoryId, playlistId, trackId, playlistTrackId>>
            ELSE Absent(updateTrack(id, updates))]_vars

\* an update has just returned a category that has the new colour and
\* owner and the name it had before, when another category was renamed
C20_Witness ==
  /\ ret.op = "updateCategory" /\ ret.ok
  /\ ret.rows[1].id \in DOMAIN categoryData
  /\ ret.rows[1].color = "#000000"
  /\ ret.rows[1].userId = Stranger
  /\ ret.rows[1].name = categoryData[ret.rows[1].id].name
  /\ ret.rows[1] = categories[ret.rows[1].id]
  /\ \E id \in DOMAIN categories : categories[id].name = "renamed"

-----------------------------------------------------------------------------
(* The delete methods of the store, called directly, and the route that    *)
(* deletes a category, while tracks are created and linked                 *)

\* the category the tracks of the model are in, and an id no category has
DeletedCategories == {NewTrack(SessionUser).categoryId, Len(categoryData) + 1}

DeletesNext ==
  \/ CreateTrack(NewTrack(SessionUser))
  \/ \E pid \in StoredPlaylists, tid \in TrackIds :
       AddTrackToPlaylist([playlistId |-> pid, trackId |-> tid, position |-> 0])
  \/ \E id \in DeletedCategories : DeleteCategory(id)
  \/ \E id \in UpdatedPlaylists : DeletePlaylist(id)
  \/ \E id \in TrackIds : DeleteTrack(id)
  \/ \E r \in Slots, id \in DeletedCategories : Quiet /\ Free(r) /\ DeleteCategoryBegin(r, id)
  \/ \E r \in Slots : DeleteCategoryEnd(r)

SpecDeletes == Init /\ [][DeletesNext]_vars

\* what a delete of id in a map gave back: true when id was a key, and then
\* id is no key any more; false when it was none, and then nothing changed
\* and nothing was thrown
Deleted(before, after, id, effect) ==
  /\ ret'.ok <=> id \in DOMAIN before
  /\ id \notin DOMAIN after
  /\ ~effect.threw
  /\ id \notin DOMAIN before => UNCHANGED store

\* C21: a delete of a category, a playlist or a track returns true exactly
\* when the id was stored before the call, and the id is not stored after
\* it; on an unknown id it returns false, does not throw and leaves every
\* map, the links among them, unchanged
C21_DeleteReportsExistence ==
  /\ [][ret'.op = "deleteCategory" =>
        \A id \in DeletedCategories :
          DeleteCategory(id) => Deleted(categories, categories', id, deleteCategory(id))]_vars
  /\ [][ret'.op = "deletePlaylist" =>
        \A id \in UpdatedPlaylists :
          DeletePlaylist(id) => Deleted(playlists, playlists', id, deletePlaylist(id))]_vars
  /\ [][ret'.op = "deleteTrack" =>
        \A id \in TrackIds :
          DeleteTrack(id) => Deleted(tracks, tracks', id, deleteTrack(id))]_vars

\* a delete of an unknown id has just returned false when links were stored
C21_Witness ==
  /\ ret.op \in {"deleteCategory", "deletePlaylist", "deleteTrack"}
  /\ ~ret.ok
  /\ playlistTracks # <<>>

\* C23: a delete of a category, by a direct call or by the route, changes
\* the category map only: the tracks, the tracks of the deleted category
\* among them, the playlists and the links are as before
C23_DeleteCategoryFrame ==
  [][(\/ ret'.op \in {"deleteCategory", "DELETE /categories/:id"}
      \/ DOMAIN categories' # DOMAIN categories)
       => UNCHANGED <<users, playlists, tracks, playlistTracks, files,
                      userId, categoryId, playlistId, trackId, playlistTrackId>>]_vars

\* the route has just deleted a category that a stored and linked track is in
C23_Witness ==
  /\ ret = Response("DELETE /categories/:id", 204, <<>>)
  /\ \E id \in DOMAIN tracks :
       /\ tracks[id].categoryId \notin DOMAIN categories
       /\ \E l \in Links : l.trackId = id

-----------------------------------------------------------------------------
(* The ordered list of a playlist, by a direct call and by the route, one *)
(* GET at a time, while tracks are linked at either position and deleted   *)

ListingNext ==
  \/ CreateTrack(NewTrack(SessionUser))
  \/ \E id \in TrackIds : DeleteTrack(id)
  \/ \E pid \in StoredPlaylists, tid \in TrackIds, pos \in Positions :
       AddTrackToPlaylist([playlistId |-> pid, trackId |-> tid, position |-> pos])
  \/ \E pid \in UpdatedPlaylists : GetPlaylistTracks(pid)
  \/ \E r \in Slots, id \in UpdatedPlaylists : Quiet /\ Free(r) /\ GetPlaylistBegin(r, id)
  \/ \E r \in Slots : GetPlaylistEnd(r)

SpecListing == Init /\ [][ListingNext]_vars

\* rows has one entry for each link of playlist pid and no other, each with
\* the position of the link and the track of the link, in non-decreasing
\* order of position
ListsLinksOf(rows, pid) ==
  /\ Len(rows) = Cardinality(LinksOf(pid))
  /\ \A l \in LinksOf(pid) :
       \E i \in DOMAIN rows : rows[i].track = tracks[l.trackId] /\ rows[i].position = l.position
  /\ \A i \in DOMAIN rows :
       \E l \in LinksOf(pid) : rows[i].track = tracks[l.trackId] /\ rows[i].position = l.position
  /\ \A i, j \in DOMAIN rows : i < j => rows[i].position <= rows[j].position

\* C22: the ordered list of a playlist has one entry per link of that
\* playlist and none of another, each with the stored position and the
\* track of the link, in non-decreasing order of position; a direct call
\* returns this list, and GET /playlists/:id sends its entries, the track
\* with the position, as the tracks of the playlist
C22_ListOrdered ==
  /\ \A pid \in UpdatedPlaylists :
       /\ ~getPlaylistTracks(pid).threw
       /\ ListsLinksOf(getPlaylistTracks(pid).rows, pid)
  /\ ret.op = "getPlaylistTracks" =>
       \E pid \in UpdatedPlaylists : ret.rows = getPlaylistTracks(pid).rows
  /\ (ret.op = "GET /playlists/:id" /\ ret.status = 200) =>
       /\ ret.rows[1].id \in DOMAIN playlists
       /\ ret.rows[1] = Spread(playlists[ret.rows[1].id],
            [tracks |-> WithPosition(getPlaylistTracks(ret.rows[1].id).rows)])

\* the route has just sent two tracks, the one that was linked later first
C22_Witness ==
  /\ ret.op = "GET /playlists/:id" /\ ret.status = 200
  /\ Len(ret.rows[1].tracks) = 2
  /\ ret.rows[1].tracks[1].position < ret.rows[1].tracks[2].position
  /\ \E a, b \in LinksOf(ret.rows[1].id) :
       /\ a.id > b.id
       /\ a.trackId = ret.rows[1].tracks[1].id
       /\ b.trackId = ret.rows[1].tracks[2].id

-----------------------------------------------------------------------------
(* Add-to-playlist requests for the last playlist of the default data,     *)
(* interleaved at their awaits; no position is set by any other call       *)

RaceNext ==
  \/ CreateTrack(NewTrack(SessionUser))
  \/ \E r \in Slots, t \in TrackIds :
       Free(r) /\ PostPlaylistTrackBegin(r, Len(playlistData), UploadBody(t))
  \/ \E r \in Slots : PostPlaylistTrackRead(r)
  \/ \E r \in Slots : PostPlaylistTrackAdd(r)

SpecRace == Init /\ [][RaceNext]_vars

\* two links of one playlist have the same position
SharedPosition ==
  \E a, b \in Links : a.id # b.id /\ a.playlistId = b.playlistId /\ a.position = b.position

\* C24: a handler inserts its link at the position it computed when it read
\* the playlist, whatever was inserted since; so when two handlers for two
\* tracks of one playlist have both read the same highest position and one
\* inserts, the other still holds that position, and when it inserts too the
\* two links have the same position
C24_RacingAddsShare ==
  /\ [][\A q \in Slots :
          (/\ Adding(q) /\ reqs[q].pc = "read" /\ reqs'[q] = Idle
           /\ DOMAIN playlistTracks' # DOMAIN playlistTracks)
          => LET new == CHOOSE k \in DOMAIN playlistTracks' : k \notin DOMAIN playlistTracks
             IN /\ playlistTracks'[new].position = reqs[q].maxPosition + 1
                /\ (\E l \in LinksOf(reqs[q].id) : l.position = reqs[q].maxPosition + 1)
                     => SharedPosition']_vars
  /\ [][\A r, q \in Slots :
          (/\ r # q
           /\ Adding(r) /\ reqs[r].pc = "read"
           /\ Adding(q) /\ reqs[q].pc = "read"
           /\ reqs[r].id = reqs[q].id
           /\ reqs[r].maxPosition = reqs[q].maxPosition
           /\ ParseInt(reqs[r].body, "trackId") # ParseInt(reqs[q].body, "trackId")
           /\ reqs'[r] = Idle
           /\ DOMAIN playlistTracks' # DOMAIN playlistTracks)
          => /\ reqs'[q] = reqs[q]
             /\ \E l \in LinksOf(reqs[q].id)' : l.position = reqs[q].maxPosition + 1]_vars

\* the second of two racing handlers has just inserted its link, and the
\* two links of the playlist, for two tracks, are at position 0
C24_Witness ==
  /\ ret.op = PostLink /\ ret.status = 201
  /\ ret.rows[1].id = playlistTrackId - 1
  /\ \E l \in Links :
       /\ l.id # ret.rows[1].id
       /\ l.playlistId = ret.rows[1].playlistId
       /\ l.trackId # ret.rows[1].trackId
       /\ l.position = ret.rows[1].position

-----------------------------------------------------------------------------
(* Ownership across a link *)

\* C25: the track of every link has the owner of the playlist of the link
C25_LinkWithinOwner ==
  \A l \in Links :
    (l.trackId \in DOMAIN tracks /\ l.playlistId \in DOMAIN playlists)
      => tracks[l.trackId].userId = playlists[l.playlistId].userId

-----------------------------------------------------------------------------
(* GET /tracks requests, interleaved, while tracks of either owner are     *)
(* created and deleted by direct calls                                     *)

\* no categoryId, the category the tracks of the model are in, and 0
Queries == {{}, {<<"1">>}, {<<"0">>}}

TracksNext ==
  \/ \E u \in Users : CreateTrack(NewTrack(u))
  \/ \E id \in TrackIds : DeleteTrack(id)
  \/ \E r \in Slots, query \in Queries : Free(r) /\ GetTracksBegin(r, query)
  \/ \E r \in Slots : GetTracksEnd(r)

SpecTracks == Init /\ [][TracksNext]_vars

\* C26: every track that GET /tracks sends, with or without a categoryId,
\* is a track of the caller
C26_TracksOfCaller ==
  (ret.op = "GET /tracks" /\ ret.status = 200) =>
    \A i \in DOMAIN ret.rows : ret.rows[i].userId = SessionUser

-----------------------------------------------------------------------------
(* The files of the upload directory *)

\* C27: every file in the upload directory is the filePath of exactly one
\* stored track; an upload that is answered 400 leaves no file
C27_FilesReferenced ==
  \A path \in files : Cardinality({id \in DOMAIN tracks : tracks[id].filePath = path}) = 1

-----------------------------------------------------------------------------
(* The three PATCH routes, one request at a time, with bodies that carry   *)
(* fields the schemas do not have                                          *)

\* a body with a new name, another owner and another id, and a body with
\* another owner only
OwnershipBodies ==
  { [name |-> Str("renamed"), userId |-> Num(Stranger), id |-> Num(9)],
    [userId |-> Num(Stranger)] }

PatchNext ==
  \/ \E r \in Slots, id \in UpdatedCategories, body \in OwnershipBodies :
       Quiet /\ Free(r) /\ PatchCategoryBegin(r, id, body)
  \/ \E r \in Slots : PatchCategoryEnd(r)
  \/ \E r \in Slots, id \in UpdatedPlaylists, body \in OwnershipBodies :
       Quiet /\ Free(r) /\ PatchPlaylistBegin(r, id, body)
  \/ \E r \in Slots : PatchPlaylistEnd(r)
  \/ \E body \in UserBodies : PatchMe(body)

SpecPatch == Init /\ [][PatchNext]_vars

PatchRoutes == {"PATCH /categories/:id", "PATCH /playlists/:id", "PATCH /users/me"}

-----------------------------------------------------------------------------
(* The Recorder component.  recorder holds its state and refs:             *)
(* mediaRecorderRef is whether the ref is set, timerIntervalRef the id the *)
(* ref holds (none at first; a cleared id stays in the ref), intervals the *)
(* ids of the one-second intervals of the window that are live,            *)
(* nextInterval the id the next setInterval returns, starting the calls of *)
(* startRecording that await getUserMedia, stopping whether a stopped      *)
(* MediaRecorder has its stop event to deliver.                            *)

\* what one step of the Recorder leaves alone
RecorderStep(next) ==
  /\ recorder' = Spread(recorder, next)
  /\ ret' = Nothing
  /\ UNCHANGED <<users, categories, playlists, tracks, playlistTracks,
                 userId, categoryId, playlistId, trackId, playlistTrackId,
                 files, page, reqs>>

\* a click on the start button, which is rendered while nothing records and
\* the save options are hidden: startRecording runs up to its await
StartRecordingBegin ==
  /\ ~recorder.isRecording /\ ~recorder.showSaveOptions
  /\ recorder.starting + recorder.nextInterval <= MaxTimers
  /\ RecorderStep([starting |-> recorder.starting + 1])

\* getUserMedia resolved: the rest of startRecording
StartRecordingEnd ==
  /\ recorder.starting > 0
  /\ RecorderStep([starting |-> recorder.starting - 1,
                   mediaRecorderRef |-> TRUE,
                   isRecording |-> TRUE, isPaused |-> FALSE,
                   recordingTime |-> 0,
                   timerIntervalRef |-> {recorder.nextInterval},
                   intervals |-> recorder.intervals \cup {recorder.nextInterval},
                   nextInterval |-> recorder.nextInterval + 1])

\* getUserMedia rejected: the catch of startRecording
StartRecordingDenied ==
  /\ recorder.starting > 0
  /\ RecorderStep([starting |-> recorder.starting - 1])

pauseRecording ==
  /\ recorder.isRecording /\ ~recorder.isPaused /\ ~recorder.showSaveOptions
  /\ recorder.mediaRecorderRef
  /\ RecorderStep([isPaused |-> TRUE,
                   intervals |-> recorder.intervals \ recorder.timerIntervalRef])

resumeRecording ==
  /\ recorder.isRecording /\ recorder.isPaused /\ ~recorder.showSaveOptions
  /\ recorder.mediaRecorderRef
  /\ recorder.nextInterval <= MaxTimers
  /\ RecorderStep([isPaused |-> FALSE,
                   timerIntervalRef |-> {recorder.nextInterval},
                   intervals |-> recorder.intervals \cup {recorder.nextInterval},
                   nextInterval |-> recorder.nextInterval + 1])

stopRecording ==
  /\ recorder.isRecording /\ ~recorder.showSaveOptions
  /\ recorder.mediaRecorderRef
  /\ RecorderStep([isRecording |-> FALSE, isPaused |-> FALSE,
                   intervals |-> recorder.intervals \ recorder.timerIntervalRef,
                   showSaveOptions |-> TRUE, stopping |-> TRUE])

\* the stop event of the MediaRecorder: onstop sets the blob and the url,
\* and the change of audioUrl runs the cleanup of the effect
MediaRecorderOnStop ==
  /\ recorder.stopping
  /\ RecorderStep([stopping |-> FALSE, recordingBlob |-> TRUE,
                   intervals |-> recorder.intervals \ recorder.timerIntervalRef])

\* a live interval fires: setRecordingTime(prev => prev + 1)
TimerTick ==
  /\ recorder.intervals # {}
  /\ recorder.recordingTime < MaxTime
  /\ RecorderStep([recordingTime |-> recorder.recordingTime + 1])

RecorderNext ==
  \/ StartRecordingBegin
  \/ StartRecordingEnd
  \/ StartRecordingDenied
  \/ pauseRecording
  \/ resumeRecording
  \/ stopRecording
  \/ MediaRecorderOnStop
  \/ TimerTick

SpecRecorder == Init /\ [][RecorderNext]_vars

\* C29: at most one one-second interval of the Recorder is live, and none
\* is live while the recorder is idle, paused or stopped
C29_OneTimer ==
  /\ Cardinality(recorder.intervals) <= 1
  /\ (~recorder.isRecording \/ recorder.isPaused) => recorder.intervals = {}

-----------------------------------------------------------------------------
(* The Upload page.  page holds its state: selectedPlaylist is the id of   *)
(* the selected playlist (none when null), uploads the file uploads the    *)
(* page has in flight: the fetch each one waits for and the playlist its   *)
(* closure captured.  What a fetch resolves to is the network's answer.    *)

\* what one step of the page leaves alone
PageStep(next) ==
  /\ page' = Spread(page, next)
  /\ ret' = Nothing
  /\ UNCHANGED <<users, categories, playlists, tracks, playlistTracks,
                 userId, categoryId, playlistId, trackId, playlistTrackId,
                 files, recorder, reqs>>

\* the list of playlists is rendered while neither flag is set
handlePlaylistSelect(playlist) ==
  /\ ~page.showUploadOptions /\ ~page.showRecorder
  /\ PageStep([selectedPlaylist |-> {playlist}, showUploadOptions |-> TRUE])

\* the upload options are rendered when showUploadOptions && selectedPlaylist
UploadOptionsRendered == page.showUploadOptions /\ page.selectedPlaylist # {}

\* the Recorder is rendered when showRecorder && selectedPlaylist
RecorderRendered == page.showRecorder /\ page.selectedPlaylist # {}

handleBackToPlaylists ==
  /\ UploadOptionsRendered
  /\ PageStep([selectedPlaylist |-> {}, showUploadOptions |-> FALSE])

handleShowRecorder ==
  /\ UploadOptionsRendered
  /\ PageStep([showRecorder |-> TRUE, showUploadOptions |-> FALSE])

\* onCancel of the Recorder
handleRecorderBack ==
  /\ RecorderRendered
  /\ PageStep([showRecorder |-> FALSE, showUploadOptions |-> TRUE])

\* onSaveComplete of the Recorder
handleRecorderComplete ==
  /\ RecorderRendered
  /\ PageStep([showRecorder |-> FALSE, showUploadOptions |-> FALSE,
               selectedPlaylist |-> {}])

\* the types of the file of the input: none, an audio file, another file
FileTypes == {{}, {"audio/mpeg"}, {"image/png"}}

\* file.type.startsWith('audio/')
IsAudio(type) == type \in {"audio/mpeg"}

\* a change of the file input: without a file, or with a file that is no
\* audio, nothing is sent; otherwise the upload is posted
handleFileUpload(i, file) ==
  /\ UploadOptionsRendered
  /\ page.uploads[i].pc = "idle"
  /\ IF file = {} \/ page.selectedPlaylist = {} \/ \E type \in file : ~IsAudio(type)
     THEN PageStep([uploads |-> page.uploads])
     ELSE PageStep([uploads |-> [page.uploads EXCEPT ![i] =
                      [pc |-> "upload", selectedPlaylist |-> page.selectedPlaylist]]])

\* the answer to POST /api/tracks/upload: when ok the link is posted
UploadResponse(i, ok) ==
  /\ page.uploads[i].pc = "upload"
  /\ PageStep([uploads |-> [page.uploads EXCEPT ![i] =
                 IF ok THEN [@ EXCEPT !.pc = "link"] ELSE [pc |-> "idle"]]])

\* the answer to POST /api/playlists/:id/tracks: when ok the page goes back
\* to the list
LinkResponse(i, ok) ==
  /\ page.uploads[i].pc = "link"
  /\ IF ok
     THEN PageStep([uploads |-> [page.uploads EXCEPT ![i] = [pc |-> "idle"]],
                    showUploadOptions |-> FALSE, selectedPlaylist |-> {}])
     ELSE PageStep([uploads |-> [page.uploads EXCEPT ![i] = [pc |-> "idle"]]])

PageNext ==
  \/ \E playlist \in DOMAIN playlists : handlePlaylistSelect(playlist)
  \/ handleBackToPlaylists
  \/ handleShowRecorder
  \/ handleRecorderBack
  \/ handleRecorderComplete
  \/ \E i \in 1..MaxRequests, file \in FileTypes : handleFileUpload(i, file)
  \/ \E i \in 1..MaxRequests, ok \in BOOLEAN : UploadResponse(i, ok)
  \/ \E i \in 1..MaxRequests, ok \in BOOLEAN : LinkResponse(i, ok)

SpecPage == Init /\ [][PageNext]_vars

====
